---- MODULE Spec2Model ----
(***************************************************************************)
(* Model of server/src/score-import/framework/score-import-main.ts:        *)
(* the orchestrator ScoreImportMain, the stat fan-out                      *)
(* UpdateUsersGameStats and the outcome partitioner ParseImportInfo.       *)
(*                                                                         *)
(* ScoreImportMain is an async function: it runs synchronously from one    *)
(* await to the next, so every action below is the code between two        *)
(* suspension points.  Collaborators are promises that are settled by the  *)
(* environment: each has a Resolve and a Reject action.  Wall-clock        *)
(* readings (Date.now, process.hrtime) and log calls decide no branch and  *)
(* are left out of the state.                                              *)
(***************************************************************************)
EXTENDS Integers, Sequences, FiniteSets, TLC

\* ---------------------------------------------------------------- bounds
MaxLen == 3       \* longest outcome sequence given to the partitioner alone
MaxBatch == 2     \* longest outcome sequence returned by ImportAllIterableData
MaxDeltas == 2    \* longest ClassDelta list returned by one stat unit

\* ------------------------------------------------------- input alphabets
PlaytypeSet == {"SP", "DP"}
ChartIDSet == {"c1", "c2"}
ScoreIDSet == {"s1", "s2"}
GameSet == {"iidx"}
ImportTypeSet == {"file/csv:eamusement-iidx"}
ErrorSet ==
    {[name |-> "Error", message |-> "collaborator failed"],
     [name |-> "MongoError", message |-> "connection lost"]}
SessionResultSet == {<<>>, <<"session1">>}
GoalInfoSet == {<<>>, <<"goal1">>}

SuccessSet ==
    {[success |-> TRUE,
      content |-> [score |-> [scoreID |-> s, chartID |-> c, playtype |-> p]]] :
        s \in ScoreIDSet, c \in ChartIDSet, p \in PlaytypeSet}

FailureSet ==
    {[success |-> FALSE, type |-> "KTDataNotFound", message |-> "m1"],
     [success |-> FALSE, type |-> "InvalidScore", message |-> "m2"]}

OutcomeSet == SuccessSet \cup FailureSet

\* The batches the pipeline is run on: the score ID decides nothing after
\* the partitioning, so one is enough there.
BatchOutcomeSet ==
    {o \in OutcomeSet : o.success => o.content.score.scoreID = "s1"}

\* The batches the termination check is run on: whether a run ends depends
\* on the batch only through the playtypes it has accepted scores for.
LiveOutcomeSet ==
    {o \in BatchOutcomeSet :
        IF o.success THEN o.content.score.chartID = "c1" ELSE o.type = "InvalidScore"}

SeqsUpTo(S, n) == UNION {[1..k -> S] : k \in 0..n}

\* ------------------------------------------------ JavaScript containers
\* A plain object with string keys is a sequence of entries in insertion
\* order, which is the order Object.keys reports for non-numeric keys.
MapHas(m, k) == \E i \in 1..Len(m) : m[i].key = k

MapGet(m, k) == m[CHOOSE i \in 1..Len(m) : m[i].key = k].value

MapPush_front(m, k, v) ==
    [i \in 1..Len(m) |->
        IF m[i].key = k THEN [key |-> k, value |-> <<v>> \o m[i].value] ELSE m[i]]

MapPush(m, k, v) ==
    [i \in 1..Len(m) |->
        IF m[i].key = k THEN [key |-> k, value |-> Append(m[i].value, v)] ELSE m[i]]

MapSet_empty(m, k, v) == Append(m, [key |-> k, value |-> <<>>])

MapSet(m, k, v) == Append(m, [key |-> k, value |-> v])

ObjectKeys(m) == [i \in 1..Len(m) |-> m[i].key]

\* A Set is a duplicate-free sequence in insertion order.
SetAdd_push(s, x) == Append(s, x)

SetAdd(s, x) == IF \E i \in 1..Len(s) : s[i] = x THEN s ELSE Append(s, x)

\* Array.prototype.flat(1): the elements of the inner arrays, in order.
Flat1_headOnly(r) == IF r = <<>> THEN <<>> ELSE Head(r)

RECURSIVE Flat1(_)
Flat1(r) == IF r = <<>> THEN <<>> ELSE Head(r) \o Flat1(Tail(r))

\* ------------------------------------------------------ ParseImportInfo
EmptyParse ==
    [scoreIDs |-> <<>>, errors |-> <<>>, scorePlaytypeMap |-> <<>>, chartIDs |-> <<>>]

ParseOne_skipKnownPlaytype(acc, info) ==
    IF info.success
    THEN LET score == info.content.score IN
         IF MapHas(acc.scorePlaytypeMap, score.playtype)
         THEN [acc EXCEPT !.scorePlaytypeMap = MapPush(@, score.playtype, score)]
         ELSE [scoreIDs |-> Append(acc.scoreIDs, score.scoreID),
               errors |-> acc.errors,
               chartIDs |-> SetAdd(acc.chartIDs, score.chartID),
               scorePlaytypeMap |-> MapSet(acc.scorePlaytypeMap, score.playtype, <<score>>)]
    ELSE [acc EXCEPT !.errors = Append(@, [type |-> info.type, message |-> info.message])]

ParseOne_errorsFront(acc, info) ==
    IF info.success
    THEN LET score == info.content.score IN
         [scoreIDs |-> Append(acc.scoreIDs, score.scoreID),
          errors |-> acc.errors,
          chartIDs |-> SetAdd(acc.chartIDs, score.chartID),
          scorePlaytypeMap |->
              IF MapHas(acc.scorePlaytypeMap, score.playtype)
              THEN MapPush(acc.scorePlaytypeMap, score.playtype, score)
              ELSE MapSet(acc.scorePlaytypeMap, score.playtype, <<score>>)]
    ELSE [acc EXCEPT !.errors = <<[type |-> info.type, message |-> info.message]>> \o @]

\* One iteration of the for loop over importInfo.
ParseOne(acc, info) ==
    IF info.success
    THEN LET score == info.content.score IN
         [scoreIDs |-> Append(acc.scoreIDs, score.scoreID),
          errors |-> acc.errors,
          chartIDs |-> SetAdd(acc.chartIDs, score.chartID),
          scorePlaytypeMap |->
              IF MapHas(acc.scorePlaytypeMap, score.playtype)
              THEN MapPush(acc.scorePlaytypeMap, score.playtype, score)
              ELSE MapSet(acc.scorePlaytypeMap, score.playtype, <<score>>)]
    ELSE [acc EXCEPT !.errors = Append(@, [type |-> info.type, message |-> info.message])]

RECURSIVE ParsePrefix(_, _)
ParsePrefix(importInfo, n) ==
    IF n = 0 THEN EmptyParse
    ELSE ParseOne(ParsePrefix(importInfo, n - 1), importInfo[n])

ParseImportInfo(importInfo) == ParsePrefix(importInfo, Len(importInfo))

\* ------------------------------------------------------------ the state
StageOrder ==
    <<"InputParser", "ImportAllIterableData", "ParseImportInfo", "CreateSessions",
      "ProcessPBs", "UpdateUsersGameStats", "UpdateUsersGoals",
      "UpdateUsersMilestones", "db.imports.insert">>

StageSet == {StageOrder[i] : i \in 1..Len(StageOrder)}

UserID == 1
ImportID == "import1"

VARIABLES
    pc,          \* where ScoreImportMain is suspended, or "returned" / "failed"
    frame,       \* the local variables of ScoreImportMain
    calls,       \* the calls ScoreImportMain has made, in order, with arguments
    status,      \* per stage: "idle", "running", "ok" or "failed"
    launched,    \* the playtypes UpdateUsersGameStats has started a unit for
    unit,        \* per playtype: "none", "running", "ok" or "failed"
    unitResult,  \* per playtype: the ClassDelta list its unit resolved with
    settled,     \* the units in the order they settled, each with the pc of that moment
    joinError,   \* the first rejection seen by Promise.all, <<>> if none
    importsDb,   \* the documents in db.imports
    timing,      \* the db["import-timings"] insert: "none", "pending", "ok", "failed"
    timingsDb,   \* the documents in db["import-timings"]
    result,      \* the promise ScoreImportMain returned to its caller
    scan         \* a stand-alone run of the ParseImportInfo loop

vars ==
    <<pc, frame, calls, status, launched, unit, unitResult, settled, joinError,
      importsDb, timing, timingsDb, result, scan>>

pipeVars ==
    <<pc, frame, calls, status, launched, unit, unitResult, settled, joinError,
      importsDb, timing, timingsDb, result>>

EmptyFrame ==
    [userIntent |-> FALSE, importType |-> "", game |-> "", importInfo |-> <<>>,
     parsed |-> EmptyParse, sessionInfo |-> <<>>, playtypes |-> <<>>,
     classDeltas |-> <<>>, goalInfo |-> <<>>, milestoneInfo |-> <<>>,
     ImportDocument |-> <<>>]

NoScan ==
    [input |-> <<>>, i |-> 0, acc |-> EmptyParse, done |-> TRUE]

PipeInit ==
    /\ pc = "idle"
    /\ frame = EmptyFrame
    /\ calls = <<>>
    /\ status = [s \in StageSet |-> "idle"]
    /\ launched = <<>>
    /\ unit = [p \in PlaytypeSet |-> "none"]
    /\ unitResult = [p \in PlaytypeSet |-> <<>>]
    /\ settled = <<>>
    /\ joinError = <<>>
    /\ importsDb = <<>>
    /\ timing = "none"
    /\ timingsDb = <<>>
    /\ result = [kind |-> "pending", value |-> <<>>]

Init == PipeInit /\ scan = NoScan

\* ------------------------------------------------------------- helpers
Call(fn, arg) == [fn |-> fn, arg |-> arg]

Throw_wrapped(stage, e) ==
    /\ status' = [status EXCEPT ![stage] = "failed"]
    /\ pc' = "failed"
    /\ result' = [kind |-> "rejected",
                  value |-> [name |-> "OrchestrationError", stage |-> stage, cause |-> e]]
    /\ UNCHANGED <<frame, calls, launched, unit, unitResult, settled, joinError,
                   importsDb, timing, timingsDb, scan>>

\* The rejection of an awaited collaborator leaves ScoreImportMain through
\* the await: nothing catches it, the returned promise rejects with it.
Throw(stage, e) ==
    /\ status' = [status EXCEPT ![stage] = "failed"]
    /\ pc' = "failed"
    /\ result' = [kind |-> "rejected", value |-> e]
    /\ UNCHANGED <<frame, calls, launched, unit, unitResult, settled, joinError,
                   importsDb, timing, timingsDb, scan>>

UnitResults(p) ==
    {[k \in 1..n |-> [playtype |-> p, class |-> k]] : n \in 0..MaxDeltas}

AllFulfilled_nonEmpty(ps) == ps # <<>> /\ \A i \in 1..Len(ps) : unit[ps[i]] = "ok"

AllFulfilled_any(ps) == ps = <<>> \/ \E i \in 1..Len(ps) : unit[ps[i]] = "ok"

AllFulfilled_settled(ps) == \A i \in 1..Len(ps) : unit[ps[i]] \in {"ok", "failed"}

\* Promise.all fulfils when every promise of the array has fulfilled.
AllFulfilled(ps) == \A i \in 1..Len(ps) : unit[ps[i]] = "ok"

\* ------------------------------------------------------ ScoreImportMain
\* Lines 22-38: entry up to the await of InputParser.
ScoreImportMain(userIntent, importType) ==
    /\ pc = "idle"
    /\ frame' = [frame EXCEPT !.userIntent = userIntent, !.importType = importType]
    /\ calls' = Append(calls, Call("InputParser", <<"logger">>))
    /\ status' = [status EXCEPT !["InputParser"] = "running"]
    /\ pc' = "InputParser"
    /\ UNCHANGED <<launched, unit, unitResult, settled, joinError, importsDb, timing,
                   timingsDb, result, scan>>

\* Lines 38-53: InputParser resolved; ImportAllIterableData is called.
InputParserResolve(game) ==
    /\ pc = "InputParser"
    /\ frame' = [frame EXCEPT !.game = game]
    /\ calls' = Append(calls, Call("ImportAllIterableData", <<UserID>>))
    /\ status' = [status EXCEPT !["InputParser"] = "ok",
                                !["ImportAllIterableData"] = "running"]
    /\ pc' = "ImportAllIterableData"
    /\ UNCHANGED <<launched, unit, unitResult, settled, joinError, importsDb, timing,
                   timingsDb, result, scan>>

InputParserReject(e) == pc = "InputParser" /\ Throw("InputParser", e)

ImportAllIterableDataResolve_abortOnErrors(importInfo) ==
    /\ pc = "ImportAllIterableData"
    /\ IF ParseImportInfo(importInfo).errors # <<>>
       THEN Throw("ParseImportInfo", [name |-> "Error", message |-> "conversion failed"])
       ELSE /\ LET parsed == ParseImportInfo(importInfo) IN
                /\ frame' = [frame EXCEPT !.importInfo = importInfo, !.parsed = parsed]
                /\ calls' = calls \o
                      <<Call("ParseImportInfo", <<importInfo>>),
                        Call("CreateSessions",
                             <<UserID, frame.importType, frame.game,
                               parsed.scorePlaytypeMap>>)>>
            /\ status' = [status EXCEPT !["ImportAllIterableData"] = "ok",
                                        !["ParseImportInfo"] = "ok",
                                        !["CreateSessions"] = "running"]
            /\ pc' = "CreateSessions"
            /\ UNCHANGED <<launched, unit, unitResult, settled, joinError, importsDb,
                           timing, timingsDb, result, scan>>

\* Lines 47-77: the outcomes arrive, ParseImportInfo runs (it is synchronous),
\* CreateSessions is called.
ImportAllIterableDataResolve(importInfo) ==
    /\ pc = "ImportAllIterableData"
    /\ LET parsed == ParseImportInfo(importInfo) IN
        /\ frame' = [frame EXCEPT !.importInfo = importInfo, !.parsed = parsed]
        /\ calls' = calls \o
              <<Call("ParseImportInfo", <<importInfo>>),
                Call("CreateSessions",
                     <<UserID, frame.importType, frame.game, parsed.scorePlaytypeMap>>)>>
    /\ status' = [status EXCEPT !["ImportAllIterableData"] = "ok",
                                !["ParseImportInfo"] = "ok",
                                !["CreateSessions"] = "running"]
    /\ pc' = "CreateSessions"
    /\ UNCHANGED <<launched, unit, unitResult, settled, joinError, importsDb, timing,
                   timingsDb, result, scan>>

ImportAllIterableDataReject(e) ==
    pc = "ImportAllIterableData" /\ Throw("ImportAllIterableData", e)

\* Lines 77-89: sessions are back; ProcessPBs is called with the chartIDs.
CreateSessionsResolve(sessionInfo) ==
    /\ pc = "CreateSessions"
    /\ frame' = [frame EXCEPT !.sessionInfo = sessionInfo]
    /\ calls' = Append(calls, Call("ProcessPBs", <<UserID, frame.parsed.chartIDs>>))
    /\ status' = [status EXCEPT !["CreateSessions"] = "ok", !["ProcessPBs"] = "running"]
    /\ pc' = "ProcessPBs"
    /\ UNCHANGED <<launched, unit, unitResult, settled, joinError, importsDb, timing,
                   timingsDb, result, scan>>

CreateSessionsReject(e) == pc = "CreateSessions" /\ Throw("CreateSessions", e)

\* Lines 193-197: the loop of UpdateUsersGameStats starts one unit per
\* element of playtypes, all of them before the await of Promise.all.
LaunchUnits(playtypes) ==
    /\ launched' = launched \o playtypes
    /\ unit' = [p \in PlaytypeSet |->
                  IF \E i \in 1..Len(playtypes) : playtypes[i] = p
                  THEN "running" ELSE unit[p]]

ProcessPBsResolve_goalsFirst ==
    /\ pc = "ProcessPBs"
    /\ frame' = [frame EXCEPT !.playtypes = ObjectKeys(frame.parsed.scorePlaytypeMap)]
    /\ calls' = Append(calls,
          Call("UpdateUsersGoals", <<frame.game, UserID, frame.parsed.chartIDs>>))
    /\ status' = [status EXCEPT !["ProcessPBs"] = "ok",
                                !["UpdateUsersGoals"] = "running"]
    /\ pc' = "UpdateUsersGoals"
    /\ UNCHANGED <<launched, unit, unitResult, settled, joinError, importsDb, timing,
                   timingsDb, result, scan>>

\* Lines 89-101 and 187-199: PBs are done; the playtypes are the keys of
\* scorePlaytypeMap; UpdateUsersGameStats is called and suspends in Promise.all.
ProcessPBsResolve ==
    /\ pc = "ProcessPBs"
    /\ LET playtypes == ObjectKeys(frame.parsed.scorePlaytypeMap) IN
        /\ frame' = [frame EXCEPT !.playtypes = playtypes]
        /\ calls' = Append(calls,
              Call("UpdateUsersGameStats", <<frame.game, playtypes, UserID>>))
        /\ LaunchUnits(playtypes)
    /\ status' = [status EXCEPT !["ProcessPBs"] = "ok",
                                !["UpdateUsersGameStats"] = "running"]
    /\ pc' = "UpdateUsersGameStats"
    /\ UNCHANGED <<unitResult, settled, joinError, importsDb, timing, timingsDb, result, scan>>

ProcessPBsReject(e) == pc = "ProcessPBs" /\ Throw("ProcessPBs", e)

\* Line 196: one UpdateUsersGamePlaytypeStats promise fulfils.  Nothing
\* cancels a unit, so it may settle whatever ScoreImportMain is doing.
UnitResolve(p, deltas) ==
    /\ unit[p] = "running"
    /\ unit' = [unit EXCEPT ![p] = "ok"]
    /\ unitResult' = [unitResult EXCEPT ![p] = deltas]
    /\ settled' = Append(settled, [playtype |-> p, pc |-> pc])
    /\ UNCHANGED <<pc, frame, calls, status, launched, joinError, importsDb,
                   timing, timingsDb, result, scan>>

\* Line 196: one UpdateUsersGamePlaytypeStats promise rejects; Promise.all
\* keeps the first rejection.
UnitReject(p, e) ==
    /\ unit[p] = "running"
    /\ unit' = [unit EXCEPT ![p] = "failed"]
    /\ joinError' = IF joinError = <<>> THEN <<p, e>> ELSE joinError
    /\ settled' = Append(settled, [playtype |-> p, pc |-> pc])
    /\ UNCHANGED <<pc, frame, calls, status, launched, unitResult, importsDb,
                   timing, timingsDb, result, scan>>

PromiseAllResolve_completionOrder ==
    /\ pc = "UpdateUsersGameStats"
    /\ AllFulfilled(launched)
    /\ frame' = [frame EXCEPT
          !.classDeltas = Flat1([i \in 1..Len(settled) |-> unitResult[settled[i].playtype]])]
    /\ calls' = Append(calls,
          Call("UpdateUsersGoals", <<frame.game, UserID, frame.parsed.chartIDs>>))
    /\ status' = [status EXCEPT !["UpdateUsersGameStats"] = "ok",
                                !["UpdateUsersGoals"] = "running"]
    /\ pc' = "UpdateUsersGoals"
    /\ UNCHANGED <<launched, unit, unitResult, settled, joinError, importsDb, timing,
                   timingsDb, result, scan>>

\* Lines 199-110: Promise.all fulfilled; the result lists are flattened in
\* the order of the promises array; UpdateUsersGoals is called.
PromiseAllResolve ==
    /\ pc = "UpdateUsersGameStats"
    /\ AllFulfilled(launched)
    /\ frame' = [frame EXCEPT
          !.classDeltas = Flat1([i \in 1..Len(launched) |-> unitResult[launched[i]]])]
    /\ calls' = Append(calls,
          Call("UpdateUsersGoals", <<frame.game, UserID, frame.parsed.chartIDs>>))
    /\ status' = [status EXCEPT !["UpdateUsersGameStats"] = "ok",
                                !["UpdateUsersGoals"] = "running"]
    /\ pc' = "UpdateUsersGoals"
    /\ UNCHANGED <<launched, unit, unitResult, settled, joinError, importsDb, timing,
                   timingsDb, result, scan>>

PromiseAllReject_afterAllSettled ==
    /\ pc = "UpdateUsersGameStats"
    /\ joinError # <<>>
    /\ \A i \in 1..Len(launched) : unit[launched[i]] # "running"
    /\ Throw("UpdateUsersGameStats", joinError[2])

\* Line 199 then 101: Promise.all rejected with the first rejection.
PromiseAllReject ==
    /\ pc = "UpdateUsersGameStats"
    /\ joinError # <<>>
    /\ Throw("UpdateUsersGameStats", joinError[2])

UpdateUsersGoalsResolve_allPlaytypes(goalInfo) ==
    /\ pc = "UpdateUsersGoals"
    /\ frame' = [frame EXCEPT !.goalInfo = goalInfo]
    /\ calls' = Append(calls,
          Call("UpdateUsersMilestones", <<goalInfo, frame.game, <<"SP", "DP">>, UserID>>))
    /\ status' = [status EXCEPT !["UpdateUsersGoals"] = "ok",
                                !["UpdateUsersMilestones"] = "running"]
    /\ pc' = "UpdateUsersMilestones"
    /\ UNCHANGED <<launched, unit, unitResult, settled, joinError, importsDb, timing,
                   timingsDb, result, scan>>

\* Lines 110-119: goals are back; UpdateUsersMilestones is called.
UpdateUsersGoalsResolve(goalInfo) ==
    /\ pc = "UpdateUsersGoals"
    /\ frame' = [frame EXCEPT !.goalInfo = goalInfo]
    /\ calls' = Append(calls,
          Call("UpdateUsersMilestones", <<goalInfo, frame.game, frame.playtypes, UserID>>))
    /\ status' = [status EXCEPT !["UpdateUsersGoals"] = "ok",
                                !["UpdateUsersMilestones"] = "running"]
    /\ pc' = "UpdateUsersMilestones"
    /\ UNCHANGED <<launched, unit, unitResult, settled, joinError, importsDb, timing,
                   timingsDb, result, scan>>

UpdateUsersGoalsReject_swallow(e) ==
    /\ pc = "UpdateUsersGoals"
    /\ calls' = Append(calls,
          Call("UpdateUsersMilestones", <<<<>>, frame.game, frame.playtypes, UserID>>))
    /\ status' = [status EXCEPT !["UpdateUsersGoals"] = "failed",
                                !["UpdateUsersMilestones"] = "running"]
    /\ pc' = "UpdateUsersMilestones"
    /\ UNCHANGED <<frame, launched, unit, unitResult, settled, joinError, importsDb, timing,
                   timingsDb, result, scan>>

UpdateUsersGoalsReject(e) == pc = "UpdateUsersGoals" /\ Throw("UpdateUsersGoals", e)

\* Lines 127-141: the import document.
BuildImportDocument(f, milestoneInfo) ==
    [importType |-> f.importType,
     idStrings |-> [i \in 1..Len(f.playtypes) |-> f.game \o ":" \o f.playtypes[i]],
     scoreIDs |-> f.parsed.scoreIDs,
     errors |-> f.parsed.errors,
     importID |-> ImportID,
     createdSessions |-> f.sessionInfo,
     userID |-> UserID,
     classDeltas |-> f.classDeltas,
     goalInfo |-> f.goalInfo,
     milestoneInfo |-> milestoneInfo,
     userIntent |-> f.userIntent]

UpdateUsersMilestonesResolve_timingFirst(milestoneInfo) ==
    /\ pc = "UpdateUsersMilestones"
    /\ LET doc == BuildImportDocument(frame, milestoneInfo) IN
        /\ frame' = [frame EXCEPT !.milestoneInfo = milestoneInfo,
                                  !.ImportDocument = doc]
        /\ calls' = Append(calls, Call("db.imports.insert", <<doc>>))
    /\ status' = [status EXCEPT !["UpdateUsersMilestones"] = "ok",
                                !["db.imports.insert"] = "running"]
    /\ timing' = "pending"
    /\ pc' = "db.imports.insert"
    /\ UNCHANGED <<launched, unit, unitResult, settled, joinError, importsDb, timingsDb,
                   result, scan>>

\* Lines 119-158: milestones are back; the document is built and
\* db.imports.insert is called.
UpdateUsersMilestonesResolve(milestoneInfo) ==
    /\ pc = "UpdateUsersMilestones"
    /\ LET doc == BuildImportDocument(frame, milestoneInfo) IN
        /\ frame' = [frame EXCEPT !.milestoneInfo = milestoneInfo,
                                  !.ImportDocument = doc]
        /\ calls' = Append(calls, Call("db.imports.insert", <<doc>>))
    /\ status' = [status EXCEPT !["UpdateUsersMilestones"] = "ok",
                                !["db.imports.insert"] = "running"]
    /\ pc' = "db.imports.insert"
    /\ UNCHANGED <<launched, unit, unitResult, settled, joinError, importsDb, timing,
                   timingsDb, result, scan>>

UpdateUsersMilestonesReject(e) ==
    pc = "UpdateUsersMilestones" /\ Throw("UpdateUsersMilestones", e)

ImportsInsertResolve_twice ==
    /\ pc = "db.imports.insert"
    /\ importsDb' = importsDb \o <<frame.ImportDocument, frame.ImportDocument>>
    /\ status' = [status EXCEPT !["db.imports.insert"] = "ok"]
    /\ timing' = "pending"
    /\ result' = [kind |-> "fulfilled", value |-> frame.ImportDocument]
    /\ pc' = "returned"
    /\ UNCHANGED <<frame, calls, launched, unit, unitResult, settled, joinError, timingsDb, scan>>

ImportsInsertResolve_awaitTiming ==
    /\ pc = "db.imports.insert"
    /\ importsDb' = Append(importsDb, frame.ImportDocument)
    /\ status' = [status EXCEPT !["db.imports.insert"] = "ok"]
    /\ timing' = "pending"
    /\ pc' = "import-timings.insert"
    /\ UNCHANGED <<frame, calls, launched, unit, unitResult, settled, joinError, timingsDb,
                   result, scan>>

\* Lines 158-184: the document is stored; the timing insert is issued and
\* not awaited; the document is returned.
ImportsInsertResolve ==
    /\ pc = "db.imports.insert"
    /\ importsDb' = Append(importsDb, frame.ImportDocument)
    /\ status' = [status EXCEPT !["db.imports.insert"] = "ok"]
    /\ timing' = "pending"
    /\ result' = [kind |-> "fulfilled", value |-> frame.ImportDocument]
    /\ pc' = "returned"
    /\ UNCHANGED <<frame, calls, launched, unit, unitResult, settled, joinError, timingsDb, scan>>

ImportsInsertReject(e) == pc = "db.imports.insert" /\ Throw("db.imports.insert", e)

\* Line 162: the detached timing insert settles, some time after the return.
TimingResolve ==
    /\ timing = "pending"
    /\ timing' = "ok"
    /\ timingsDb' = Append(timingsDb, [importID |-> ImportID])
    /\ UNCHANGED <<pc, frame, calls, status, launched, unit, unitResult, settled, joinError,
                   importsDb, result, scan>>

TimingReject ==
    /\ timing = "pending"
    /\ timing' = "failed"
    /\ UNCHANGED <<pc, frame, calls, status, launched, unit, unitResult, settled, joinError,
                   importsDb, timingsDb, result, scan>>

Next ==
    \/ \E ui \in BOOLEAN, it \in ImportTypeSet : ScoreImportMain(ui, it)
    \/ \E g \in GameSet : InputParserResolve(g)
    \/ \E e \in ErrorSet : InputParserReject(e)
    \/ \E info \in SeqsUpTo(BatchOutcomeSet, MaxBatch) : ImportAllIterableDataResolve(info)
    \/ \E e \in ErrorSet : ImportAllIterableDataReject(e)
    \/ \E s \in SessionResultSet : CreateSessionsResolve(s)
    \/ \E e \in ErrorSet : CreateSessionsReject(e)
    \/ ProcessPBsResolve
    \/ \E e \in ErrorSet : ProcessPBsReject(e)
    \/ \E p \in PlaytypeSet : \E d \in UnitResults(p) : UnitResolve(p, d)
    \/ \E p \in PlaytypeSet, e \in ErrorSet : UnitReject(p, e)
    \/ PromiseAllResolve
    \/ PromiseAllReject
    \/ \E g \in GoalInfoSet : UpdateUsersGoalsResolve(g)
    \/ \E e \in ErrorSet : UpdateUsersGoalsReject(e)
    \/ \E g \in GoalInfoSet : UpdateUsersMilestonesResolve(<<"milestones", g>>)
    \/ \E e \in ErrorSet : UpdateUsersMilestonesReject(e)
    \/ ImportsInsertResolve
    \/ \E e \in ErrorSet : ImportsInsertReject(e)
    \/ TimingResolve
    \/ TimingReject

Spec == Init /\ [][Next]_vars

\* Every awaited promise settles, one way or the other, and a settled
\* promise resumes the function that awaits it.
Settle ==
    \/ \E g \in GameSet : InputParserResolve(g)
    \/ \E e \in ErrorSet : InputParserReject(e)
    \/ \E info \in SeqsUpTo(LiveOutcomeSet, MaxBatch) : ImportAllIterableDataResolve(info)
    \/ \E e \in ErrorSet : ImportAllIterableDataReject(e)
    \/ \E s \in SessionResultSet : CreateSessionsResolve(s)
    \/ \E e \in ErrorSet : CreateSessionsReject(e)
    \/ ProcessPBsResolve
    \/ \E e \in ErrorSet : ProcessPBsReject(e)
    \/ \E p \in PlaytypeSet : \E d \in UnitResults(p) : UnitResolve(p, d)
    \/ \E p \in PlaytypeSet, e \in ErrorSet : UnitReject(p, e)
    \/ PromiseAllResolve
    \/ PromiseAllReject
    \/ \E g \in GoalInfoSet : UpdateUsersGoalsResolve(g)
    \/ \E e \in ErrorSet : UpdateUsersGoalsReject(e)
    \/ \E g \in GoalInfoSet : UpdateUsersMilestonesResolve(<<"milestones", g>>)
    \/ \E e \in ErrorSet : UpdateUsersMilestonesReject(e)
    \/ ImportsInsertResolve
    \/ \E e \in ErrorSet : ImportsInsertReject(e)

NextLive ==
    \/ \E ui \in BOOLEAN, it \in ImportTypeSet : ScoreImportMain(ui, it)
    \/ Settle
    \/ TimingResolve
    \/ TimingReject

SpecLive == Init /\ [][NextLive]_vars /\ WF_vars(Settle)

\* ------------------------------------- ParseImportInfo, one record a step
\* The partitioner on its own: any outcome sequence, one loop iteration
\* (lines 210-223) per step, then the return of line 225.
ScanInit ==
    /\ PipeInit
    /\ scan \in {[input |-> s, i |-> 0, acc |-> EmptyParse, done |-> FALSE] :
                    s \in SeqsUpTo(OutcomeSet, MaxLen)}

ScanStep ==
    /\ ~scan.done
    /\ scan.i < Len(scan.input)
    /\ scan' = [scan EXCEPT !.i = @ + 1, !.acc = ParseOne(@, scan.input[scan.i + 1])]
    /\ UNCHANGED pipeVars

ScanReturn ==
    /\ ~scan.done
    /\ scan.i = Len(scan.input)
    /\ scan' = [scan EXCEPT !.done = TRUE]
    /\ UNCHANGED pipeVars

NextParse == ScanStep \/ ScanReturn

SpecParse == ScanInit /\ [][NextParse]_vars

\* ============================================================== claims
Count(seq, x) == Cardinality({i \in 1..Len(seq) : seq[i] = x})

Accepted(input, n) == {k \in 1..n : input[k].success}

Rejected(input, n) == {k \in 1..n : ~input[k].success}

\* C1: the calls ScoreImportMain makes are a prefix of the fixed stage
\* order, every call but the last one has completed successfully, and a
\* stage has left "idle" exactly when it has been called (so none twice).
C1_FixedStageOrder ==
    /\ Len(calls) <= Len(StageOrder)
    /\ \A k \in 1..Len(calls) : calls[k].fn = StageOrder[k]
    /\ \A k \in 1..(Len(calls) - 1) : status[calls[k].fn] = "ok"
    /\ \A k \in 1..Len(StageOrder) :
          (status[StageOrder[k]] # "idle") <=> (k <= Len(calls))

C1_Witness ==
    /\ pc = "returned"
    /\ Len(calls) = Len(StageOrder)
    /\ \A s \in StageSet : status[s] = "ok"

\* C2: once a collaborator has failed, every later stage is still idle, the
\* function has failed and its caller holds a rejection, not a document; a
\* failed stat unit leaves goals, milestones and the insert idle; a failed
\* InputParser means no outcome was ever produced.
C2_FailureAborts ==
    /\ \A k \in 1..Len(StageOrder) :
          status[StageOrder[k]] = "failed" =>
              /\ \A j \in (k + 1)..Len(StageOrder) : status[StageOrder[j]] = "idle"
              /\ pc = "failed"
              /\ result.kind = "rejected"
    /\ (\E p \in PlaytypeSet : unit[p] = "failed") =>
          /\ status["UpdateUsersGoals"] = "idle"
          /\ status["UpdateUsersMilestones"] = "idle"
          /\ status["db.imports.insert"] = "idle"
          /\ result.kind # "fulfilled"
    /\ status["InputParser"] = "failed" =>
          /\ frame.importInfo = <<>>
          /\ Len(calls) = 1

C2_Witness ==
    /\ status["UpdateUsersGoals"] = "failed"
    /\ pc = "failed"
    /\ Len(frame.parsed.scoreIDs) > 0

\* C3: db.imports never holds more than one document of the import; it
\* holds exactly the returned one when the run returned and none when the
\* run failed.
C3_OneSummaryOrNone ==
    /\ Len(importsDb) <= 1
    /\ result.kind = "fulfilled" => importsDb = <<result.value>>
    /\ result.kind = "rejected" => importsDb = <<>>
    /\ pc = "returned" <=> result.kind = "fulfilled"
    /\ pc = "failed" <=> result.kind = "rejected"

C3_Witness == pc = "returned" /\ Len(importsDb) = 1 /\ result.kind = "fulfilled"

\* C4: UpdateUsersGoals has never been called while a stat unit is running.
C4_JoinIsBarrier ==
    status["UpdateUsersGoals"] # "idle" =>
        \A p \in PlaytypeSet : unit[p] # "running"

C4_Witness ==
    /\ status["UpdateUsersGoals"] = "running"
    /\ Len(launched) = 2
    /\ \A p \in PlaytypeSet : unit[p] = "ok"

\* C5: with a failed stat unit the fan-out never succeeds: classDeltas stays
\* unset, goals and milestones are never called, nothing is persisted and
\* the caller gets no document.
C5_FanOutAllOrNothing ==
    (\E p \in PlaytypeSet : unit[p] = "failed") =>
        /\ status["UpdateUsersGameStats"] \in {"running", "failed"}
        /\ pc \in {"UpdateUsersGameStats", "failed"}
        /\ frame.classDeltas = <<>>
        /\ status["UpdateUsersGoals"] = "idle"
        /\ status["UpdateUsersMilestones"] = "idle"
        /\ importsDb = <<>>
        /\ result.kind # "fulfilled"

C5_Witness ==
    /\ pc = "failed"
    /\ status["UpdateUsersGameStats"] = "failed"
    /\ \E p, q \in PlaytypeSet :
          unit[p] = "failed" /\ unit[q] = "ok" /\ unitResult[q] # <<>>

\* C6: when the fan-out succeeded, one unit was started for each key of
\* scorePlaytypeMap and none for any other playtype, and classDeltas holds,
\* for every playtype, exactly the list its unit returned and nothing else.
C6_FanOutUnion ==
    status["UpdateUsersGameStats"] = "ok" =>
        /\ \A p \in PlaytypeSet :
              Count(launched, p) =
                  IF MapHas(frame.parsed.scorePlaytypeMap, p) THEN 1 ELSE 0
        /\ \A p \in PlaytypeSet :
              LET OfP(d) == d.playtype = p IN
              SelectSeq(frame.classDeltas, OfP) = unitResult[p]
        /\ \A i \in 1..Len(frame.classDeltas) :
              Count(launched, frame.classDeltas[i].playtype) = 1

C6_Witness ==
    /\ status["UpdateUsersGameStats"] = "ok"
    /\ Len(launched) = 2
    /\ \A p \in PlaytypeSet : Len(unitResult[p]) = 2
    /\ Len(frame.classDeltas) = 4

\* C7: the timing insert has been issued exactly when db.imports.insert has
\* completed, and then the document of this import is in db.imports.
C7_TimingAfterPersist ==
    /\ timing # "none" =>
          /\ status["db.imports.insert"] = "ok"
          /\ Len(importsDb) = 1
          /\ importsDb[1].importID = ImportID
    /\ status["db.imports.insert"] = "ok" => timing # "none"

C7_Witness == timing = "pending" /\ pc = "returned" /\ Len(importsDb) = 1

\* C8: the timing insert settles only after ScoreImportMain has returned,
\* and from the return on neither the returned document nor db.imports
\* changes, whichever way the timing insert goes.
C8_TimingIsInert ==
    [][ /\ (timing = "pending" /\ timing' # "pending") =>
              (pc = "returned" /\ result.kind = "fulfilled")
        /\ result.kind = "fulfilled" =>
              (result' = result /\ importsDb' = importsDb /\ pc' = pc) ]_vars

C8_Witness ==
    /\ pc = "returned"
    /\ timing = "failed"
    /\ result.kind = "fulfilled"
    /\ importsDb = <<result.value>>

\* C9: at every point of the scan, scoreIDs has one entry per successful
\* outcome seen and errors one per failed outcome seen, so in the result
\* their lengths add up to the length of the outcome sequence.
C9_PartitionCounts ==
    /\ Len(scan.acc.scoreIDs) = Cardinality(Accepted(scan.input, scan.i))
    /\ Len(scan.acc.errors) = Cardinality(Rejected(scan.input, scan.i))
    /\ scan.done =>
          Len(scan.acc.scoreIDs) + Len(scan.acc.errors) = Len(scan.input)

C9_Witness ==
    /\ scan.done
    /\ Len(scan.input) = 3
    /\ Len(scan.acc.scoreIDs) = 2
    /\ Len(scan.acc.errors) = 1

\* C10: the returned chartIDs holds every chart ID of a successful outcome
\* once, and nothing else.
C10_ChartIDSet ==
    scan.done =>
        /\ {scan.acc.chartIDs[j] : j \in 1..Len(scan.acc.chartIDs)} =
              {scan.input[k].content.score.chartID :
                  k \in Accepted(scan.input, Len(scan.input))}
        /\ \A j \in 1..Len(scan.acc.chartIDs) :
              Count(scan.acc.chartIDs, scan.acc.chartIDs[j]) = 1

C10_Witness ==
    /\ scan.done
    /\ Len(scan.input) = 3
    /\ Len(scan.acc.scoreIDs) = 2
    /\ Len(scan.acc.chartIDs) = 1
    /\ Len(scan.acc.errors) = 1

\* The accepted scores of the first n outcomes, in their original order.
RECURSIVE AcceptedScores(_, _)
AcceptedScores(input, n) ==
    IF n = 0 THEN <<>>
    ELSE IF input[n].success
         THEN Append(AcceptedScores(input, n - 1), input[n].content.score)
         ELSE AcceptedScores(input, n - 1)

OfPlaytype(scores, p) ==
    LET IsP(sc) == sc.playtype = p IN SelectSeq(scores, IsP)

\* C11: in the returned scorePlaytypeMap every group is the subsequence of
\* the accepted scores of its playtype, in the original order; no playtype
\* has two groups, so every accepted score is in one group, once.
C11_StablePartition ==
    scan.done =>
        LET m == scan.acc.scorePlaytypeMap
            all == AcceptedScores(scan.input, Len(scan.input)) IN
        /\ \A j \in 1..Len(m) : m[j].value = OfPlaytype(all, m[j].key)
        /\ \A j, k \in 1..Len(m) : m[j].key = m[k].key => j = k
        /\ \A p \in PlaytypeSet : OfPlaytype(all, p) # <<>> => MapHas(m, p)

C11_Witness ==
    /\ scan.done
    /\ Len(scan.input) = 3
    /\ Len(scan.acc.scorePlaytypeMap) = 2
    /\ \E j \in 1..2 :
          /\ Len(scan.acc.scorePlaytypeMap[j].value) = 2
          /\ scan.acc.scorePlaytypeMap[j].value[1].scoreID = "s2"
          /\ scan.acc.scorePlaytypeMap[j].value[2].scoreID = "s1"

\* C12: at every point of the scan every key of scorePlaytypeMap has a
\* non-empty list, and a playtype is a key exactly when an accepted score
\* seen so far has it.
C12_GroupsNonEmpty ==
    LET m == scan.acc.scorePlaytypeMap IN
    /\ \A j \in 1..Len(m) : m[j].value # <<>>
    /\ \A p \in PlaytypeSet :
          MapHas(m, p) <=>
              \E k \in Accepted(scan.input, scan.i) :
                  scan.input[k].content.score.playtype = p

C12_Witness ==
    /\ ~scan.done
    /\ scan.i = 2
    /\ Len(scan.input) = 3
    /\ ~scan.input[1].success
    /\ MapHas(scan.acc.scorePlaytypeMap, "DP")
    /\ ~MapHas(scan.acc.scorePlaytypeMap, "SP")

AllFailed(info) == info # <<>> /\ \A k \in 1..Len(info) : ~info[k].success

HasCall(k, fn) == Len(calls) >= k /\ calls[k].fn = fn

\* C13: ParseImportInfo never fails and the run fails only when a
\* collaborator did; with a batch of failed records only, every call made
\* so far got empty groups, chartIDs and playtypes, no stat unit exists, and
\* a returned run has stored one document with empty scoreIDs, idStrings
\* and classDeltas and with the errors.
C13_RecordFailuresDoNotAbort ==
    /\ status["ParseImportInfo"] # "failed"
    /\ pc = "failed" =>
          \E st \in StageSet \ {"ParseImportInfo"} : status[st] = "failed"
    /\ AllFailed(frame.importInfo) =>
          /\ HasCall(4, "CreateSessions") /\ calls[4].arg[4] = <<>>
          /\ Len(calls) >= 5 => calls[5].arg[2] = <<>>
          /\ Len(calls) >= 6 => calls[6].arg[2] = <<>>
          /\ launched = <<>>
          /\ Len(calls) >= 7 => calls[7].arg[3] = <<>>
          /\ Len(calls) >= 8 => calls[8].arg[3] = <<>>
          /\ pc = "returned" =>
                /\ \A st \in StageSet : status[st] = "ok"
                /\ importsDb = <<result.value>>
                /\ result.value.scoreIDs = <<>>
                /\ result.value.idStrings = <<>>
                /\ result.value.classDeltas = <<>>
                /\ Len(result.value.errors) = Len(frame.importInfo)

C13_Witness ==
    /\ pc = "returned"
    /\ Len(frame.importInfo) = 2
    /\ AllFailed(frame.importInfo)
    /\ Len(importsDb) = 1
    /\ Len(importsDb[1].errors) = 2

\* The {type, message} pairs of the failed outcomes among the first n, in
\* their original order.
RECURSIVE FailuresOf(_, _)
FailuresOf(input, n) ==
    IF n = 0 THEN <<>>
    ELSE IF input[n].success
         THEN FailuresOf(input, n - 1)
         ELSE Append(FailuresOf(input, n - 1),
                     [type |-> input[n].type, message |-> input[n].message])

\* C14: the errors of the returned and of the stored document are the
\* {type, message} pairs of the failed outcomes, in their original order.
C14_FailuresSurfaced ==
    result.kind = "fulfilled" =>
        /\ result.value.errors = FailuresOf(frame.importInfo, Len(frame.importInfo))
        /\ Len(importsDb) = 1
        /\ importsDb[1].errors = result.value.errors

C14_Witness ==
    /\ result.kind = "fulfilled"
    /\ Len(result.value.errors) = 2
    /\ result.value.errors[1].type = "InvalidScore"
    /\ result.value.errors[2].type = "KTDataNotFound"

SeqToSet(q) == {q[i] : i \in 1..Len(q)}

NoDup(q) == \A i, j \in 1..Len(q) : q[i] = q[j] => i = j

\* C17: the playtypes given to the stat fan-out are, without duplicates, the
\* playtypes that have an accepted score; the units started, the playtypes
\* given to the milestone evaluator and the idStrings of the document are
\* made from that same list; the chartIDs given to the goal evaluator are
\* the ones given to ProcessPBs, the chart IDs of the accepted scores.
C17_OneSubtypeList ==
    LET info == frame.importInfo
        acc == Accepted(info, Len(info)) IN
    /\ Len(calls) >= 5 =>
          SeqToSet(calls[5].arg[2]) = {info[k].content.score.chartID : k \in acc}
    /\ Len(calls) >= 6 =>
          /\ SeqToSet(calls[6].arg[2]) = {info[k].content.score.playtype : k \in acc}
          /\ NoDup(calls[6].arg[2])
          /\ launched = calls[6].arg[2]
    /\ Len(calls) >= 7 => calls[7].arg[3] = calls[5].arg[2]
    /\ Len(calls) >= 8 => calls[8].arg[3] = calls[6].arg[2]
    /\ Len(calls) >= 9 =>
          LET ids == calls[9].arg[1].idStrings IN
          /\ Len(ids) = Len(calls[6].arg[2])
          /\ \A i \in 1..Len(ids) : ids[i] = frame.game \o ":" \o calls[6].arg[2][i]
          /\ NoDup(ids)
    /\ result.kind = "fulfilled" =>
          /\ result.value.idStrings = calls[9].arg[1].idStrings
          /\ importsDb[1].idStrings = calls[9].arg[1].idStrings

C17_Witness ==
    /\ pc = "returned"
    /\ Len(launched) = 2
    /\ result.value.idStrings = <<"iidx:DP", "iidx:SP">>
    /\ Len(calls[7].arg[3]) = 2

\* C15 as claimed: the rejection the caller receives is an
\* OrchestrationError that carries the failed stage and, for the stat
\* fan-out, the failed playtype.
C15_ErrorNamesStage ==
    result.kind = "rejected" =>
        /\ result.value.name = "OrchestrationError"
        /\ status[result.value.stage] = "failed"
        /\ status["UpdateUsersGameStats"] = "failed" =>
              result.value.playtype = joinError[1]

\* C15 as amended: the rejection the caller receives is the rejection of a
\* collaborator, passed on as it is; for the stat fan-out it is the
\* rejection of the unit that failed first.
C15_ErrorIsCollaboratorsOwn ==
    result.kind = "rejected" =>
        /\ result.value \in ErrorSet
        /\ status["UpdateUsersGameStats"] = "failed" =>
              /\ result.value = joinError[2]
              /\ \E i \in 1..Len(settled) :
                    /\ settled[i].playtype = joinError[1]
                    /\ \A j \in 1..(i - 1) : unit[settled[j].playtype] = "ok"

C15_Witness ==
    /\ pc = "failed"
    /\ status["UpdateUsersGameStats"] = "failed"
    /\ Len(settled) = 2
    /\ unit[settled[1].playtype] = "ok"
    /\ unit[settled[2].playtype] = "failed"
    /\ result.value = joinError[2]

\* C18: under the fairness of SpecLive, a started ScoreImportMain ends up
\* returned or failed; its pc is never anywhere but at entry, at one of
\* the awaits, or at one of these two ends.
C18_Terminates ==
    /\ [](pc \in {"idle", "returned", "failed"} \cup StageSet)
    /\ (pc # "idle") ~> (pc \in {"returned", "failed"})

C18_Witness ==
    /\ pc = "returned"
    /\ Len(frame.importInfo) = 2
    /\ launched = <<>>

RECURSIVE ConcatResults(_, _)
ConcatResults(order, n) ==
    IF n = 0 THEN <<>>
    ELSE ConcatResults(order, n - 1) \o unitResult[order[n]]

\* C19: when the fan-out succeeded, the units were started in the key
\* order of scorePlaytypeMap and classDeltas is their result lists
\* concatenated in that order, in whatever order they settled.
C19_DeltasInLaunchOrder ==
    status["UpdateUsersGameStats"] = "ok" =>
        /\ launched = ObjectKeys(frame.parsed.scorePlaytypeMap)
        /\ frame.classDeltas = ConcatResults(launched, Len(launched))

C19_Witness ==
    /\ status["UpdateUsersGameStats"] = "ok"
    /\ Len(launched) = 2
    /\ settled[1].playtype = launched[2]
    /\ settled[2].playtype = launched[1]
    /\ \A p \in PlaytypeSet : unitResult[p] # <<>>
    /\ frame.classDeltas[1].playtype = launched[1]

\* C20: once UpdateUsersGameStats has been called every playtype has its
\* unit; after the first rejection the fan-out can fail at once, whatever
\* the other units are doing; a unit still running when ScoreImportMain
\* has failed can still complete.
C20_FailFastNoCancel ==
    /\ status["UpdateUsersGameStats"] # "idle" =>
          \A i \in 1..Len(frame.playtypes) : unit[frame.playtypes[i]] # "none"
    /\ (pc = "UpdateUsersGameStats" /\ joinError # <<>>) => ENABLED PromiseAllReject
    /\ \A p \in PlaytypeSet :
          (pc = "failed" /\ unit[p] = "running") => ENABLED UnitResolve(p, <<>>)

C20_Witness ==
    /\ pc = "failed"
    /\ status["UpdateUsersGameStats"] = "failed"
    /\ \E i \in 1..Len(settled) :
          settled[i].pc = "failed" /\ unit[settled[i].playtype] = "ok"

====
